---------------------------- MODULE Spec2Model ----------------------------
(***************************************************************************)
(* Artist search strategies of plex_mcp.sections.artist_search_strategies: *)
(* the name normalizer, the four search strategies and the context that    *)
(* runs them in order.                                                     *)
(*                                                                         *)
(* A string is a sequence of characters; a character is written as itself  *)
(* ("Q", "-", " ") or as its code point ("U+2013").  The catalog (the Plex *)
(* music section and server) is outside the module: every catalog call     *)
(* answers with any response of a bounded set, or raises.                  *)
(***************************************************************************)
EXTENDS Integers, Sequences, FiniteSets, TLC

(***************************************************************************)
(* Bounds of the model.                                                    *)
(***************************************************************************)
MaxLen == 2          \* longest artist string a caller passes
MaxTracks == 2       \* longest track list a catalog call answers with
MaxEntries == 2      \* longest entry list the server's search answers with
MaxNameLen == 3      \* longest string normalize_artist_name is called with alone

(***************************************************************************)
(* Characters and strings.                                                 *)
(***************************************************************************)
\* a dash_variants list that lacks the horizontal bar
dash_variants_without_bar ==
    <<"U+2010", "U+2013", "U+2014", "U+2212", "U+2012">>

\* the dash_variants list, in its order
dash_variants ==
    <<"U+2010", "U+2013", "U+2014", "U+2212", "U+2012", "U+2015">>

\* the space_variants list, in its order
space_variants ==
    <<"U+00A0", "U+2000", "U+2001", "U+2002", "U+2003", "U+2004", "U+2005",
      "U+2006", "U+2007", "U+2008", "U+2009", "U+200A">>

Range(s) == {s[i] : i \in 1..Len(s)}

\* the characters the regular expression \s and str.strip() take as whitespace
Whitespace == {" ", "\t", "\n"} \cup Range(space_variants)

IsSpace(c) == c \in Whitespace

\* the characters with the compatibility decomposition U+0020
CompatibilitySpaces == Range(space_variants)

\* a decomposition that drops the combining marks
NFKDCharWithoutMarks(c) ==
    CASE c \in CompatibilitySpaces -> <<" ">>
      [] c = "U+2011" -> <<"U+2010">>
      [] c = "U+00B4" -> <<" ">>
      [] c = "U+00E9" -> <<"e">>
      [] c = "U+00C9" -> <<"E">>
      [] OTHER -> <<c>>

\* unicodedata.normalize("NFKD", c) of one character: compatibility spaces
\* decompose to U+0020, the non-breaking hyphen to U+2010, an accented letter
\* to its base letter followed by the combining mark, the acute accent to
\* U+0020 followed by the combining mark
NFKDChar(c) ==
    CASE c \in CompatibilitySpaces -> <<" ">>
      [] c = "U+2011" -> <<"U+2010">>
      [] c = "U+00B4" -> <<" ", "U+0301">>
      [] c = "U+00E9" -> <<"e", "U+0301">>
      [] c = "U+00C9" -> <<"E", "U+0301">>
      [] OTHER -> <<c>>

RECURSIVE NFKD(_)
NFKD(s) == IF s = <<>> THEN <<>> ELSE NFKDChar(Head(s)) \o NFKD(Tail(s))

\* str.replace(old, new) for a one-character old
StrReplace(s, old, new) ==
    IF \A i \in 1..Len(s) : s[i] # old THEN s
    ELSE [i \in 1..Len(s) |-> IF s[i] = old THEN new ELSE s[i]]

\* for v in variants: s = s.replace(v, new); every replace leaves a string
\* that holds none of the variants as it is
RECURSIVE ReplaceEach(_, _, _)
ReplaceEach(s, variants, new) ==
    IF variants = <<>> \/ \A i \in 1..Len(s) : s[i] \notin Range(variants) THEN s
    ELSE ReplaceEach(StrReplace(s, Head(variants), new), Tail(variants), new)

RECURSIVE SkipSpaces(_)
SkipSpaces(s) ==
    IF s # <<>> /\ IsSpace(Head(s)) THEN SkipSpaces(Tail(s)) ELSE s

\* re.sub(r"\s+", "", s)
RemoveSpaces(s) == SelectSeq(s, LAMBDA c : ~IsSpace(c))

\* re.sub(r"\s+", " ", s)
RECURSIVE CollapseSpaces(_)
CollapseSpaces(s) ==
    IF s = <<>> THEN <<>>
    ELSE IF IsSpace(Head(s)) THEN <<" ">> \o CollapseSpaces(SkipSpaces(s))
    ELSE <<Head(s)>> \o CollapseSpaces(Tail(s))

RECURSIVE DropTrailingSpaces(_)
DropTrailingSpaces(s) ==
    IF s # <<>> /\ IsSpace(s[Len(s)])
    THEN DropTrailingSpaces(SubSeq(s, 1, Len(s) - 1))
    ELSE s

\* str.lstrip()
StripLeading(s) == SkipSpaces(s)

\* str.strip()
Strip(s) == DropTrailingSpaces(SkipSpaces(s))

\* a normalizer that replaces the dashes before it decomposes the string
normalize_decomposing_late(name) ==
    LET dashed == ReplaceEach(name, dash_variants, "-")
        decomposed == NFKD(dashed)
        spaced == ReplaceEach(decomposed, space_variants, " ")
    IN Strip(CollapseSpaces(spaced))

normalize_artist_name(name) ==
    LET decomposed == NFKD(name)
        dashed == ReplaceEach(decomposed, dash_variants, "-")
        spaced == ReplaceEach(dashed, space_variants, " ")
    IN Strip(CollapseSpaces(spaced))

\* str.lower() of one character
LowerChar(c) ==
    CASE c = "Q" -> "q"
      [] c = "E" -> "e"
      [] c = "U+00C9" -> "U+00E9"
      [] OTHER -> c

\* str.lower()
Lower(s) == [i \in 1..Len(s) |-> LowerChar(s[i])]


(***************************************************************************)
(* The catalog: what its calls can answer.                                 *)
(***************************************************************************)
\* characters of the artist strings callers pass
QueryAlphabet == {"Q", "q", "-", "U+2013", " "}

RECURSIVE StringsUpTo(_, _)
StringsUpTo(alphabet, n) ==
    IF n = 0 THEN {<<>>}
    ELSE LET shorter == StringsUpTo(alphabet, n - 1)
         IN shorter \cup {Append(s, c) : s \in shorter, c \in alphabet}

Artists == StringsUpTo(QueryAlphabet, MaxLen)
Limits == {1, 2}
Servers == {"server"}
MusicSections == {"music_section"}

\* artist names the catalog holds (<<>>: a missing or empty title)
Titles == {<<>>, <<"Q">>, <<"q">>, <<"Q", "-">>, <<"Q", "U+2013">>}

\* the track lists searchTracks answers with; a track is its identity and,
\* as far as the strategies read it, its grandparentTitle
TrackLists ==
    UNION {{[i \in 1..n |-> [id |-> i, grandparentTitle |-> g[i]]] :
               g \in [1..n -> Titles]} : n \in 0..MaxTracks}

\* an entry of the server's search; type "" stands for an entry without a
\* type attribute
Entries ==
    [type : {"artist"}, title : Titles]
        \cup [type : {"album", ""}, title : {<<"Q">>}]

EntryLists == UNION {[1..n -> Entries] : n \in 0..MaxEntries}

\* exceptions a catalog call raises; "Other" is any exception that is neither
\* a BadRequest nor a NotFound
Suppressed == {"BadRequest", "NotFound"}
ErrorKinds == Suppressed \cup {"Other"}

Raises == {[kind |-> k, items |-> <<>>] : k \in ErrorKinds}
TrackResponses == {[kind |-> "ok", items |-> t] : t \in TrackLists} \cup Raises
SearchResponses == {[kind |-> "ok", items |-> e] : e \in EntryLists} \cup Raises

(***************************************************************************)
(* Catalog calls and results.                                              *)
(***************************************************************************)
\* no result: a search that is running, or that raised
NoResult == [none |-> TRUE]

FailureResult == [success |-> FALSE, tracks |-> <<>>, matched_artists |-> <<>>]

SuccessResult(tracks, matched) ==
    [success |-> TRUE, tracks |-> tracks, matched_artists |-> matched]

\* music_section.searchTracks(filters={"artist.title": value}, limit=limit)
FilterQuery(strategy, section, value, lim) ==
    [strategy |-> strategy, target |-> section, method |-> "searchTracks",
     param |-> "filters[artist.title]", value |-> value, limit |-> lim]

\* music_section.searchTracks(title=value, limit=limit)
TitleQuery(strategy, section, value, lim) ==
    [strategy |-> strategy, target |-> section, method |-> "searchTracks",
     param |-> "title", value |-> value, limit |-> lim]

GlobalSearchCap == 50

\* server.search(value, limit=50)
ServerSearch(strategy, srv, value) ==
    [strategy |-> strategy, target |-> srv, method |-> "search",
     param |-> "query", value |-> value, limit |-> GlobalSearchCap]

\* how a search_tracks method ends: with a result, or by an exception
Returned(res) == [raised |-> "", result |-> res]
Raised(kind) == [raised |-> kind, result |-> NoResult]

\* a block that suppresses BadRequest alone
LeaveSuppressingBadRequest(kind) ==
    IF kind = "BadRequest" THEN Returned(FailureResult) ELSE Raised(kind)

\* a block that suppresses every exception
LeaveSuppressingAll(kind) == Returned(FailureResult)

\* leaving a with suppress(BadRequest, NotFound) block by an exception of
\* the kind given: the suppressed kinds fall through to the return of the
\* failure result, any other kind leaves the method
LeaveByException(kind) ==
    IF kind \in Suppressed THEN Returned(FailureResult) ELSE Raised(kind)

(***************************************************************************)
(* The strategies: the call each search_tracks issues, and how it ends as  *)
(* a function of the catalog's answer r.                                   *)
(***************************************************************************)
ExactQuery(section, name, lim) ==
    FilterQuery("ExactMatchStrategy", section, name, lim)

\* an exact match that reports the artist of the first track returned
ExactReportingCatalogName(name, r) ==
    IF r.kind # "ok" THEN LeaveByException(r.kind)
    ELSE IF r.items # <<>>
         THEN Returned(SuccessResult(r.items, <<r.items[1].grandparentTitle>>))
         ELSE Returned(FailureResult)

\* an exact match that does not test whether the catalog returned tracks
ExactWithoutEmptyTest(name, r) ==
    IF r.kind # "ok" THEN LeaveByException(r.kind)
    ELSE Returned(SuccessResult(r.items, <<name>>))

ExactMatchStrategy(name, r) ==
    IF r.kind # "ok" THEN LeaveByException(r.kind)
    ELSE IF r.items # <<>> THEN Returned(SuccessResult(r.items, <<name>>))
    ELSE Returned(FailureResult)

\* a normalized match that queries whatever the normalization gives
NormalizedQueriesAlways(name) == TRUE

\* whether NormalizedMatchStrategy queries the catalog at all
NormalizedQueries(name) == normalize_artist_name(name) # name

\* a normalized match that filters on the artist string as passed
NormalizedQueryRaw(section, name, lim) ==
    FilterQuery("NormalizedMatchStrategy", section, name, lim)

NormalizedQuery(section, name, lim) ==
    FilterQuery("NormalizedMatchStrategy", section, normalize_artist_name(name), lim)

NormalizedMatchStrategy(name, r) ==
    LET normalized_artist == normalize_artist_name(name)
    IN IF r.kind # "ok" THEN LeaveByException(r.kind)
       ELSE IF r.items # <<>>
            THEN Returned(SuccessResult(r.items, <<normalized_artist>>))
            ELSE Returned(FailureResult)

GlobalQuery(srv, name) == ServerSearch("GlobalSearchStrategy", srv, name)

\* a comprehension that takes every artist, whatever its title
GlobalMatchesAnyArtist(item, name) ==
    /\ item.type = "artist"
    /\ item.title # <<>>

\* a comprehension that does not look at the type of an item
GlobalMatchesAnyType(item, name) ==
    /\ item.title # <<>>
    /\ \/ Lower(item.title) = Lower(name)
       \/ Lower(normalize_artist_name(item.title))
              = Lower(normalize_artist_name(name))

\* the condition of the matching_artists comprehension
GlobalMatches(item, name) ==
    /\ item.type # ""
    /\ item.type = "artist"
    /\ item.title # <<>>
    /\ \/ Lower(item.title) = Lower(name)
       \/ Lower(normalize_artist_name(item.title))
              = Lower(normalize_artist_name(name))

\* the matching_artists comprehension: the titles of the matching items, in
\* the order of global_results
RECURSIVE MatchingArtists(_, _)
MatchingArtists(global_results, name) ==
    IF global_results = <<>> THEN <<>>
    ELSE (IF GlobalMatches(Head(global_results), name)
          THEN <<Head(global_results).title>> ELSE <<>>)
         \o MatchingArtists(Tail(global_results), name)

\* a strategy that takes the last matching artist
LastMatchingArtist(matching_artists) == matching_artists[Len(matching_artists)]

\* artist_name = matching_artists[0]
FirstMatchingArtist(matching_artists) == matching_artists[1]

\* a follow-up query that takes the cap of the server's search as its limit
GlobalTracksQueryCapped(section, name, lim) ==
    FilterQuery("GlobalSearchStrategy", section, name, GlobalSearchCap)

GlobalTracksQuery(section, name, lim) ==
    FilterQuery("GlobalSearchStrategy", section, name, lim)

\* a global search whose suppressing block ends before the track query
GlobalPropagatingTrackErrors(name, r) ==
    IF r.kind # "ok" THEN Raised(r.kind)
    ELSE IF r.items # <<>> THEN Returned(SuccessResult(r.items, <<name>>))
    ELSE Returned(FailureResult)

\* a global search that returns only the first track of the answer
GlobalReturningFirstTrack(name, r) ==
    IF r.kind # "ok" THEN LeaveByException(r.kind)
    ELSE IF r.items # <<>>
         THEN Returned(SuccessResult(SubSeq(r.items, 1, 1), <<name>>))
    ELSE Returned(FailureResult)

\* GlobalSearchStrategy.search_tracks from the answer of its track query on
GlobalSearchStrategy(name, r) ==
    IF r.kind # "ok" THEN LeaveByException(r.kind)
    ELSE IF r.items # <<>> THEN Returned(SuccessResult(r.items, <<name>>))
    ELSE Returned(FailureResult)

FuzzyQuery(section, name, lim) ==
    TitleQuery("FuzzySearchStrategy", section, name, lim)

\* a loop that keeps every track that names an artist
FuzzyKeepsAttributed(track, name) == track.grandparentTitle # <<>>

\* the condition under which the loop over tracks keeps a track
FuzzyKeeps(track, name) ==
    /\ track.grandparentTitle # <<>>
    /\ \/ Lower(track.grandparentTitle) = Lower(name)
       \/ Lower(normalize_artist_name(track.grandparentTitle))
              = Lower(normalize_artist_name(name))

\* matching_tracks after the loop: the kept tracks, in the order of tracks
RECURSIVE MatchingTracks(_, _)
MatchingTracks(tracks, name) ==
    IF tracks = <<>> THEN <<>>
    ELSE (IF FuzzyKeeps(Head(tracks), name) THEN <<Head(tracks)>> ELSE <<>>)
         \o MatchingTracks(Tail(tracks), name)

\* matched_artists after the loop: a set
MatchedArtistSet(tracks, name) ==
    {t.grandparentTitle : t \in Range(MatchingTracks(tracks, name))}

\* list(a_set): the elements once each, in an order the set type chooses
ListsOfSet(S) == {l \in [1..Cardinality(S) -> S] : Range(l) = S}

\* the orders list(matched_artists) can come out in after the answer r
FuzzyOrders(name, r) == ListsOfSet(MatchedArtistSet(r.items, name))

FuzzySearchStrategy(name, r, order) ==
    LET matching_tracks == MatchingTracks(r.items, name)
    IN IF r.kind # "ok" THEN LeaveByException(r.kind)
       ELSE IF r.items # <<>> /\ matching_tracks # <<>>
            THEN Returned(SuccessResult(matching_tracks, order))
            ELSE Returned(FailureResult)

(***************************************************************************)
(* The context, and the searches a caller runs on it one after the other.  *)
(* A search moves at its catalog calls: a strategy issues a call, the      *)
(* catalog answers it, the strategy goes on with the answer.               *)
(***************************************************************************)
VARIABLES
    server,         \* ArtistSearchContext.server
    strategies,     \* ArtistSearchContext.strategies
    pc,             \* "idle"; "invoke": the for loop is about to call
                    \* strategies[idx]; "await": strategies[idx] waits for
                    \* the catalog; "answered"; "returned"; "raised"
    music_section,  \* the arguments of search_tracks_by_artist
    artist,
    limit,
    idx,            \* the position of the for loop in strategies
    artist_name,    \* the local artist_name of GlobalSearchStrategy
    invoked,        \* the search_tracks calls of this search, in order
    calls,          \* the catalog calls of this search, in order
    pending,        \* the latest catalog call of the strategy called last
    response,       \* and the catalog's answer to it
    result,         \* what search_tracks_by_artist returned
    error,          \* the exception that left it
    norm_pc,        \* a caller of normalize_artist_name alone: "idle";
                    \* "called"; "returned"; "compared"; "renormalized";
                    \* "matched"
    arg_name,       \* the argument of normalize_artist_name
    normalized,     \* what it returned
    renormalized,   \* what it returned for its own result
    differs,        \* normalized_artist != artist
    matches,        \* whether the comparisons of GlobalSearchStrategy and
                    \* FuzzySearchStrategy take the name and its unaccented
                    \* spelling, one as the artist and one as the catalog's
                    \* string, for a match
    frames,         \* the frames of the searches that run on the context
                    \* at the same time, one for each caller
    hash_seed       \* the string hash seed of the interpreter, as far as it
                    \* shows: the order list(a_set) gives for each order of
                    \* insertions; NoSeed before the interpreter has started

context == <<server, strategies>>
arguments == <<music_section, artist, limit>>
search == <<pc, arguments, idx, artist_name, invoked, calls, pending, response,
            result, error>>
normalizer == <<norm_pc, arg_name, normalized, renormalized, differs, matches>>
vars == <<server, strategies, pc, music_section, artist, limit, idx,
          artist_name, invoked, calls, pending, response, result, error,
          norm_pc, arg_name, normalized, renormalized, differs, matches, frames,
          hash_seed>>

NoCall ==
    [strategy |-> "", target |-> "", method |-> "", param |-> "",
     value |-> <<>>, limit |-> 0]

NoResponse == [kind |-> "", items |-> <<>>]

\* the callers that search at the same time
Callers == {1, 2}

NoSeed == <<>>

NoMatches == [global |-> FALSE, fuzzy |-> FALSE]

\* the frame of search_tracks_by_artist before it is entered: its arguments,
\* the locals of the running strategy, and the answers the catalog has
\* given to this search so far
NoFrame ==
    [pc |-> "idle", music_section |-> "", artist |-> <<>>, limit |-> 0,
     idx |-> 1, artist_name |-> <<>>, pending |-> NoCall,
     response |-> NoResponse, answers |-> <<>>, result |-> NoResult,
     error |-> ""]

\* a strategy object: its class and, for GlobalSearchStrategy, its server
Strategy(class, srv) == [class |-> class, server |-> srv]

\* a constructor that builds GlobalSearchStrategy without the server
NewStrategiesWithoutServer(srv) ==
    <<[class |-> "ExactMatchStrategy", server |-> ""],
      [class |-> "NormalizedMatchStrategy", server |-> ""],
      [class |-> "GlobalSearchStrategy", server |-> ""],
      [class |-> "FuzzySearchStrategy", server |-> ""]>>

\* the strategies list ArtistSearchContext.__init__ builds
NewStrategies(srv) ==
    <<Strategy("ExactMatchStrategy", ""),
      Strategy("NormalizedMatchStrategy", ""),
      Strategy("GlobalSearchStrategy", srv),
      Strategy("FuzzySearchStrategy", "")>>

Init ==
    /\ server \in Servers
    /\ strategies = NewStrategies(server)
    /\ pc = "idle"
    /\ music_section = ""
    /\ artist = <<>>
    /\ limit = 0
    /\ idx = 1
    /\ artist_name = <<>>
    /\ invoked = <<>>
    /\ calls = <<>>
    /\ pending = NoCall
    /\ response = NoResponse
    /\ result = NoResult
    /\ error = ""
    /\ norm_pc = "idle"
    /\ arg_name = <<>>
    /\ normalized = <<>>
    /\ renormalized = <<>>
    /\ differs = FALSE
    /\ matches = NoMatches
    /\ frames = [c \in Callers |-> NoFrame]
    /\ hash_seed = NoSeed

\* a caller enters search_tracks_by_artist
Start ==
    /\ pc = "idle"
    /\ music_section' \in MusicSections
    /\ artist' \in Artists
    /\ limit' \in Limits
    /\ pc' = "invoke"
    /\ UNCHANGED <<context, normalizer, frames, hash_seed, idx, artist_name, invoked, calls, pending,
                   response, result, error>>

\* the caller has taken the result or the exception: the frame of the search
\* is gone, the context stays
Finish ==
    /\ pc \in {"returned", "raised"}
    /\ pc' = "idle"
    /\ music_section' = ""
    /\ artist' = <<>>
    /\ limit' = 0
    /\ idx' = 1
    /\ artist_name' = <<>>
    /\ invoked' = <<>>
    /\ calls' = <<>>
    /\ pending' = NoCall
    /\ response' = NoResponse
    /\ result' = NoResult
    /\ error' = ""
    /\ UNCHANGED <<context, normalizer, frames, hash_seed>>

\* a search that falls off its end without a return statement
ExhaustedWithoutReturn == NoResult

\* the result when the for loop ends without a success
ExhaustedResult == [success |-> FALSE, tracks |-> <<>>, matched_artists |-> <<>>]

\* the arguments the for loop passes to strategy.search_tracks
PassedArtist(name) == name
PassedLimit(lim) == lim

\* what strategy.search_tracks(music_section, artist, limit) receives
Passed ==
    [music_section |-> music_section, artist |-> PassedArtist(artist),
     limit |-> PassedLimit(limit)]

\* strategy.search_tracks(music_section, artist, limit) is called
Invocation(strategy) ==
    [strategy |-> strategy.class, music_section |-> Passed.music_section,
     artist |-> Passed.artist, limit |-> Passed.limit,
     done |-> FALSE, raised |-> "", result |-> NoResult]

\* the running invocation, the last of the log inv, has ended as out says
Ended(inv, out) ==
    [inv EXCEPT ![Len(inv)] =
        [@ EXCEPT !.done = TRUE, !.raised = out.raised, !.result = out.result]]

\* a loop that never takes a strategy's result
LoopNeverReturns(r) == FALSE

\* whether the for loop returns the result r of a strategy
LoopReturns(r) == r.success

\* a loop that steps over a strategy
NextIndexSkipping(i) == i + 2

\* a loop that calls the same strategy again
NextIndexStaying(i) == i

\* the strategy the for loop calls after strategies[i]; past the end of the
\* list the loop is over
NextIndex(i) == i + 1

\* the for loop after strategy.search_tracks has ended as out says; inv is
\* the log of invocations with the one that ended as its last
LoopStep(inv, out) ==
    /\ invoked' = Ended(inv, out)
    /\ IF out.raised # ""
       THEN /\ pc' = "raised"
            /\ error' = out.raised
            /\ UNCHANGED <<idx, result>>
       ELSE IF LoopReturns(out.result)
       THEN /\ pc' = "returned"
            /\ result' = out.result
            /\ UNCHANGED <<idx, error>>
       ELSE IF NextIndex(idx) > Len(strategies)
       THEN /\ pc' = "returned"
            /\ result' = ExhaustedResult
            /\ UNCHANGED <<idx, error>>
       ELSE /\ pc' = "invoke"
            /\ idx' = NextIndex(idx)
            /\ UNCHANGED <<result, error>>

\* the strategy at the loop's position
Current == strategies[idx]

\* strategies[idx].search_tracks is called and issues the catalog call q
Issue(q) ==
    /\ invoked' = Append(invoked, Invocation(Current))
    /\ calls' = Append(calls, q)
    /\ pending' = q
    /\ response' = NoResponse
    /\ pc' = "await"
    /\ UNCHANGED <<context, normalizer, frames, hash_seed, arguments, idx, artist_name, result, error>>

\* the catalog answers the pending call, or raises
Answer ==
    /\ pc = "await"
    /\ response' \in (IF pending.method = "search"
                      THEN SearchResponses ELSE TrackResponses)
    /\ pc' = "answered"
    /\ UNCHANGED <<context, normalizer, frames, hash_seed, arguments, idx, artist_name, invoked, calls,
                   pending, result, error>>

\* strategies[idx].search_tracks ends as out says after the answer
Resume(out) ==
    /\ LoopStep(invoked, out)
    /\ UNCHANGED <<context, normalizer, frames, hash_seed, arguments, artist_name, calls, pending, response>>

\* strategies[idx].search_tracks is called and returns res without a
\* catalog call
ReturnAtOnce(res) ==
    /\ LoopStep(Append(invoked, Invocation(Current)), Returned(res))
    /\ pending' = NoCall
    /\ response' = NoResponse
    /\ UNCHANGED <<context, normalizer, frames, hash_seed, arguments, artist_name, calls>>

ExactIssue ==
    /\ pc = "invoke" /\ Current.class = "ExactMatchStrategy"
    /\ Issue(ExactQuery(Passed.music_section, Passed.artist, Passed.limit))

ExactResume ==
    /\ pc = "answered" /\ Current.class = "ExactMatchStrategy"
    /\ Resume(ExactMatchStrategy(Passed.artist, response))

NormalizedIssue ==
    /\ pc = "invoke" /\ Current.class = "NormalizedMatchStrategy"
    /\ NormalizedQueries(Passed.artist)
    /\ Issue(NormalizedQuery(Passed.music_section, Passed.artist, Passed.limit))

NormalizedSkip ==
    /\ pc = "invoke" /\ Current.class = "NormalizedMatchStrategy"
    /\ ~NormalizedQueries(Passed.artist)
    /\ ReturnAtOnce(FailureResult)

NormalizedResume ==
    /\ pc = "answered" /\ Current.class = "NormalizedMatchStrategy"
    /\ Resume(NormalizedMatchStrategy(Passed.artist, response))

GlobalIssue ==
    /\ pc = "invoke" /\ Current.class = "GlobalSearchStrategy"
    /\ Issue(GlobalQuery(Current.server, Passed.artist))

\* after server.search: the comprehension, then the track query for the
\* first matching artist, or the end of the method
GlobalFilter ==
    /\ pc = "answered" /\ Current.class = "GlobalSearchStrategy"
    /\ pending.method = "search"
    /\ IF response.kind # "ok"
       THEN Resume(LeaveByException(response.kind))
       ELSE LET matching_artists == MatchingArtists(response.items, Passed.artist)
            IN IF matching_artists = <<>>
               THEN Resume(Returned(FailureResult))
               ELSE LET q == GlobalTracksQuery(Passed.music_section,
                                 FirstMatchingArtist(matching_artists),
                                 Passed.limit)
                    IN /\ artist_name' = FirstMatchingArtist(matching_artists)
                       /\ calls' = Append(calls, q)
                       /\ pending' = q
                       /\ response' = NoResponse
                       /\ pc' = "await"
                       /\ UNCHANGED <<context, normalizer, frames, hash_seed, arguments, idx, invoked,
                                      result, error>>

GlobalResume ==
    /\ pc = "answered" /\ Current.class = "GlobalSearchStrategy"
    /\ pending.method = "searchTracks"
    /\ Resume(GlobalSearchStrategy(artist_name, response))

FuzzyIssue ==
    /\ pc = "invoke" /\ Current.class = "FuzzySearchStrategy"
    /\ Issue(FuzzyQuery(Passed.music_section, Passed.artist, Passed.limit))

FuzzyResume ==
    /\ pc = "answered" /\ Current.class = "FuzzySearchStrategy"
    /\ \E order \in FuzzyOrders(Passed.artist, response) :
           Resume(FuzzySearchStrategy(Passed.artist, response, order))

Next ==
    \/ Start \/ Finish \/ Answer
    \/ ExactIssue \/ ExactResume
    \/ NormalizedIssue \/ NormalizedSkip \/ NormalizedResume
    \/ GlobalIssue \/ GlobalFilter \/ GlobalResume
    \/ FuzzyIssue \/ FuzzyResume

Spec == Init /\ [][Next]_vars

\* the running code of a search takes its next step: where the for loop is
\* about to call a strategy, or a strategy has its answer, the position of
\* the search (pc, idx) moves on
Advance ==
    /\ pc \in {"invoke", "answered"}
    /\ pc' \in {"invoke", "await", "answered", "returned", "raised"}
    /\ idx' \in 1..Len(strategies)

\* the searches when the code goes on running and every catalog call
\* returns (with an answer or an exception)
SpecLive == Spec /\ WF_<<pc, idx>>(Advance) /\ WF_vars(Answer)

(***************************************************************************)
(* normalize_artist_name called on its own, on strings of a wider          *)
(* alphabet: a caller normalizes a name, then either compares the result   *)
(* with the name, as NormalizedMatchStrategy does, or normalizes the       *)
(* result again.                                                           *)
(***************************************************************************)
\* characters of the names: a letter, the ASCII hyphen, whitespace that the
\* regular expression alone handles, compatibility spaces, the six dash
\* variants, and characters that NFKD decomposes
NameAlphabet ==
    {"Q", "-", " ", "\t", "U+00A0", "U+2003",
     "U+2010", "U+2013", "U+2014", "U+2212", "U+2012", "U+2015",
     "U+2011", "U+00E9", "e", "U+00B4"}

Names == StringsUpTo(NameAlphabet, MaxNameLen)

\* normalize_artist_name(name) is called
NormalizeCall ==
    /\ norm_pc = "idle"
    /\ arg_name' \in Names
    /\ norm_pc' = "called"
    /\ UNCHANGED <<context, search, frames, hash_seed, normalized, renormalized, differs, matches>>

\* it returns
NormalizeReturn ==
    /\ norm_pc = "called"
    /\ normalized' = normalize_artist_name(arg_name)
    /\ norm_pc' = "returned"
    /\ UNCHANGED <<context, search, frames, hash_seed, arg_name, renormalized, differs, matches>>

\* the test NormalizedMatchStrategy makes on the returned string
NormalizeCompare ==
    /\ norm_pc = "returned"
    /\ differs' = NormalizedQueries(arg_name)
    /\ norm_pc' = "compared"
    /\ UNCHANGED <<context, search, frames, hash_seed, arg_name, normalized, renormalized, matches>>

\* normalize_artist_name is called with its own result, and returns
NormalizeAgain ==
    /\ norm_pc = "returned"
    /\ renormalized' = normalize_artist_name(normalized)
    /\ norm_pc' = "renormalized"
    /\ UNCHANGED <<context, search, frames, hash_seed, arg_name, normalized, differs, matches>>

\* the name without its accents
RECURSIVE Unaccented(_)
Unaccented(s) ==
    IF s = <<>> THEN <<>>
    ELSE <<IF Head(s) = "U+00E9" THEN "e" ELSE Head(s)>> \o Unaccented(Tail(s))

\* the comparisons of GlobalSearchStrategy and FuzzySearchStrategy are made
\* between the name and its unaccented spelling, each in turn as the artist
\* searched for and as the string of the catalog
NormalizeMatch ==
    /\ norm_pc = "returned"
    /\ matches' =
           [global |->
                \/ GlobalMatches([type |-> "artist", title |-> arg_name],
                                 Unaccented(arg_name))
                \/ GlobalMatches([type |-> "artist",
                                  title |-> Unaccented(arg_name)], arg_name),
            fuzzy |->
                \/ FuzzyKeeps([id |-> 1, grandparentTitle |-> arg_name],
                              Unaccented(arg_name))
                \/ FuzzyKeeps([id |-> 1,
                               grandparentTitle |-> Unaccented(arg_name)],
                              arg_name)]
    /\ norm_pc' = "matched"
    /\ UNCHANGED <<context, search, frames, hash_seed, arg_name, normalized,
                   renormalized, differs>>

NextNorm ==
    \/ NormalizeCall \/ NormalizeReturn \/ NormalizeCompare \/ NormalizeAgain
    \/ NormalizeMatch

SpecNorm == Init /\ [][NextNorm]_vars

(***************************************************************************)
(* Searches that run on one context at the same time.  Every caller has    *)
(* its own frame of search_tracks_by_artist and of the strategy it runs;   *)
(* the context (server, strategies) is the one object they share.  The     *)
(* steps of the callers interleave at the catalog calls.                   *)
(***************************************************************************)
\* what the callers pass and what the catalog answers them
ConcurrentArtists == {<<"Q">>, <<"Q", "U+2013">>}
ConcurrentLimits == {1}

ConcurrentTrackResponses ==
    {[kind |-> "ok", items |-> <<>>],
     [kind |-> "ok", items |-> <<[id |-> 1, grandparentTitle |-> <<"Q">>]>>],
     [kind |-> "BadRequest", items |-> <<>>],
     [kind |-> "Other", items |-> <<>>]}

ConcurrentSearchResponses ==
    {[kind |-> "ok", items |-> <<>>],
     [kind |-> "ok", items |-> <<[type |-> "artist", title |-> <<"Q">>]>>],
     [kind |-> "ok", items |-> <<[type |-> "artist", title |-> <<"q">>]>>],
     [kind |-> "NotFound", items |-> <<>>]}

\* search_tracks_by_artist(music_section, artist, limit) is entered
Entered(section, name, lim) ==
    [NoFrame EXCEPT !.pc = "invoke", !.music_section = section,
                    !.artist = name, !.limit = lim]

\* the frame f when its strategy issues the catalog call q
Awaiting(f, q) ==
    [f EXCEPT !.pending = q, !.response = NoResponse, !.pc = "await"]

\* the frame f of the for loop after strategy.search_tracks has ended as out
\* says
AfterStrategy(f, out) ==
    IF out.raised # ""
    THEN [f EXCEPT !.pc = "raised", !.error = out.raised]
    ELSE IF LoopReturns(out.result)
    THEN [f EXCEPT !.pc = "returned", !.result = out.result]
    ELSE IF NextIndex(f.idx) > Len(strategies)
    THEN [f EXCEPT !.pc = "returned", !.result = ExhaustedResult]
    ELSE [f EXCEPT !.pc = "invoke", !.idx = NextIndex(f.idx)]

\* the frame f after the for loop has called strategies[f.idx], up to the
\* strategy's catalog call or, if it makes none, its return
Invoked(f) ==
    LET strategy == strategies[f.idx]
    IN CASE strategy.class = "ExactMatchStrategy" ->
                Awaiting(f, ExactQuery(f.music_section, f.artist, f.limit))
         [] strategy.class = "NormalizedMatchStrategy" ->
                IF NormalizedQueries(f.artist)
                THEN Awaiting(f, NormalizedQuery(f.music_section, f.artist, f.limit))
                ELSE AfterStrategy(f, Returned(FailureResult))
         [] strategy.class = "GlobalSearchStrategy" ->
                Awaiting(f, GlobalQuery(strategy.server, f.artist))
         [] strategy.class = "FuzzySearchStrategy" ->
                Awaiting(f, FuzzyQuery(f.music_section, f.artist, f.limit))

\* the frame f after the catalog has answered its pending call with r
Answered(f, r) ==
    [f EXCEPT !.response = r, !.answers = Append(@, r), !.pc = "answered"]

\* the frames f can go on to after the answer, up to the strategy's next
\* catalog call or its return; read_name is what the strategy reads as
\* artist_name after its track query
Resumed(f, read_name) ==
    LET strategy == strategies[f.idx]
        r == f.response
    IN CASE strategy.class = "ExactMatchStrategy" ->
                {AfterStrategy(f, ExactMatchStrategy(f.artist, r))}
         [] strategy.class = "NormalizedMatchStrategy" ->
                {AfterStrategy(f, NormalizedMatchStrategy(f.artist, r))}
         [] strategy.class = "GlobalSearchStrategy"
                /\ f.pending.method = "search" ->
                IF r.kind # "ok"
                THEN {AfterStrategy(f, LeaveByException(r.kind))}
                ELSE LET matching_artists == MatchingArtists(r.items, f.artist)
                     IN IF matching_artists = <<>>
                        THEN {AfterStrategy(f, Returned(FailureResult))}
                        ELSE {Awaiting(
                                 [f EXCEPT !.artist_name =
                                      FirstMatchingArtist(matching_artists)],
                                 GlobalTracksQuery(f.music_section,
                                     FirstMatchingArtist(matching_artists),
                                     f.limit))}
         [] strategy.class = "GlobalSearchStrategy"
                /\ f.pending.method = "searchTracks" ->
                {AfterStrategy(f, GlobalSearchStrategy(read_name, r))}
         [] strategy.class = "FuzzySearchStrategy" ->
                {AfterStrategy(f, FuzzySearchStrategy(f.artist, r, order)) :
                    order \in FuzzyOrders(f.artist, r)}

\* an artist_name kept where the callers share it: the one set last is read
SharedArtistName(fs, c) ==
    LET set == {d \in DOMAIN fs : fs[d].artist_name # <<>>}
    IN IF set = {} THEN <<>>
       ELSE fs[CHOOSE d \in set : \A e \in set : d >= e].artist_name

\* the local artist_name of the caller c's GlobalSearchStrategy.search_tracks
LocalArtistName(fs, c) == fs[c].artist_name

ConcurrentStart ==
    \E c \in Callers :
        /\ frames[c].pc = "idle"
        /\ \E section \in MusicSections, name \in ConcurrentArtists,
              lim \in ConcurrentLimits :
               frames' = [frames EXCEPT ![c] = Entered(section, name, lim)]
        /\ UNCHANGED <<context, search, normalizer, hash_seed>>

ConcurrentInvoke ==
    \E c \in Callers :
        /\ frames[c].pc = "invoke"
        /\ frames' = [frames EXCEPT ![c] = Invoked(frames[c])]
        /\ UNCHANGED <<context, search, normalizer, hash_seed>>

ConcurrentAnswer ==
    \E c \in Callers :
        /\ frames[c].pc = "await"
        /\ \E r \in (IF frames[c].pending.method = "search"
                      THEN ConcurrentSearchResponses
                      ELSE ConcurrentTrackResponses) :
               frames' = [frames EXCEPT ![c] = Answered(frames[c], r)]
        /\ UNCHANGED <<context, search, normalizer, hash_seed>>

ConcurrentResume ==
    \E c \in Callers :
        /\ frames[c].pc = "answered"
        /\ \E f \in Resumed(frames[c], LocalArtistName(frames, c)) :
               frames' = [frames EXCEPT ![c] = f]
        /\ UNCHANGED <<context, search, normalizer, hash_seed>>

NextConcurrent ==
    \/ ConcurrentStart \/ ConcurrentInvoke \/ ConcurrentAnswer
    \/ ConcurrentResume

SpecConcurrent == Init /\ [][NextConcurrent]_vars

(***************************************************************************)
(* Searches that run on one context one after the other, in one            *)
(* interpreter.  The interpreter's string hash seed is fixed when it       *)
(* starts; with it, the order list(a_set) gives is a function of the       *)
(* order in which the strings were added to the new set.                   *)
(***************************************************************************)
\* what the callers pass and what the catalog answers them
RunsArtists == {<<"Q">>, <<"q">>}
RunsLimits == {1, 2}

RunsTrackResponses ==
    {[kind |-> "ok", items |-> <<>>],
     [kind |-> "ok", items |-> <<[id |-> 1, grandparentTitle |-> <<"Q">>],
                                 [id |-> 2, grandparentTitle |-> <<"q">>]>>],
     [kind |-> "ok", items |-> <<[id |-> 1, grandparentTitle |-> <<"q">>],
                                 [id |-> 2, grandparentTitle |-> <<"Q">>]>>],
     [kind |-> "Other", items |-> <<>>]}

RunsSearchResponses ==
    {[kind |-> "ok", items |-> <<>>],
     [kind |-> "ok", items |-> <<[type |-> "artist", title |-> <<"q">>]>>],
     [kind |-> "NotFound", items |-> <<>>]}

\* the orders in which the loop over tracks can add strings to
\* matched_artists
InsertionOrders ==
    {<<>>, << <<"Q">> >>, << <<"q">> >>, << <<"Q">>, <<"q">> >>,
     << <<"q">>, <<"Q">> >>}

\* a hash seed gives every order of insertions an order of iteration
HashSeeds ==
    {h \in [InsertionOrders -> InsertionOrders] :
        \A ins \in InsertionOrders :
            Len(h[ins]) = Len(ins) /\ Range(h[ins]) = Range(ins)}

\* the strings matched_artists.add() receives that are not yet in the set,
\* in the order of the kept tracks
RECURSIVE AddedInOrder(_, _)
AddedInOrder(kept, added) ==
    IF kept = <<>> THEN added
    ELSE AddedInOrder(Tail(kept),
             IF Head(kept).grandparentTitle \in Range(added) THEN added
             ELSE Append(added, Head(kept).grandparentTitle))

\* a matched_artists set that is kept from the earlier search: its strings
\* come out in the order that search left them in
ListOfKeptSet(ins) ==
    IF /\ frames[1].pc = "returned"
       /\ frames[1].idx = 4
       /\ frames[1].result.success
    THEN frames[1].result.matched_artists
    ELSE hash_seed[ins]

\* list(matched_artists) for a set that was new when the loop began
ListOfSet(ins) == hash_seed[ins]

\* the frames among Resumed(f, read_name) that the interpreter's hash seed
\* allows
SeededResumed(f, read_name) ==
    {g \in Resumed(f, read_name) :
        (/\ strategies[f.idx].class = "FuzzySearchStrategy"
         /\ g.pc = "returned"
         /\ g.result.success)
        => g.result.matched_artists =
               ListOfSet(AddedInOrder(
                   MatchingTracks(f.response.items, f.artist), <<>>))}

\* the interpreter starts
InterpreterStart ==
    /\ hash_seed = NoSeed
    /\ hash_seed' \in HashSeeds
    /\ UNCHANGED <<context, search, normalizer, frames>>

\* a caller enters search_tracks_by_artist when the searches of the callers
\* before it have ended
RunsStart ==
    \E c \in Callers :
        /\ hash_seed # NoSeed
        /\ frames[c].pc = "idle"
        /\ \A d \in Callers : d < c => frames[d].pc \in {"returned", "raised"}
        /\ \E section \in MusicSections, name \in RunsArtists,
              lim \in RunsLimits :
               frames' = [frames EXCEPT ![c] = Entered(section, name, lim)]
        /\ UNCHANGED <<context, search, normalizer, hash_seed>>

RunsInvoke ==
    \E c \in Callers :
        /\ hash_seed # NoSeed
        /\ frames[c].pc = "invoke"
        /\ frames' = [frames EXCEPT ![c] = Invoked(frames[c])]
        /\ UNCHANGED <<context, search, normalizer, hash_seed>>

RunsAnswer ==
    \E c \in Callers :
        /\ hash_seed # NoSeed
        /\ frames[c].pc = "await"
        /\ \E r \in (IF frames[c].pending.method = "search"
                      THEN RunsSearchResponses ELSE RunsTrackResponses) :
               frames' = [frames EXCEPT ![c] = Answered(frames[c], r)]
        /\ UNCHANGED <<context, search, normalizer, hash_seed>>

RunsResume ==
    \E c \in Callers :
        /\ hash_seed # NoSeed
        /\ frames[c].pc = "answered"
        /\ \E f \in SeededResumed(frames[c], LocalArtistName(frames, c)) :
               frames' = [frames EXCEPT ![c] = f]
        /\ UNCHANGED <<context, search, normalizer, hash_seed>>

NextRuns ==
    \/ InterpreterStart
    \/ RunsStart \/ RunsInvoke \/ RunsAnswer \/ RunsResume

SpecRuns == Init /\ [][NextRuns]_vars

(***************************************************************************)
(* Properties.                                                             *)
(***************************************************************************)
\* the invocation called last
LastInvoked == invoked[Len(invoked)]

\* the invocation i has returned a result (it is not running, it did not raise)
HasReturned(i) == invoked[i].done /\ invoked[i].raised = ""

\* the catalog calls a strategy class has made in this search
CallsOf(class) == SelectSeq(calls, LAMBDA c : c.strategy = class)

\* the latest strategy has returned after the catalog answered its call
ReturnedAfterAnswer(class) ==
    /\ invoked # <<>>
    /\ LastInvoked.strategy = class
    /\ HasReturned(Len(invoked))
    /\ pending.strategy = class
    /\ response.kind # ""

PriorityOrder ==
    <<"ExactMatchStrategy", "NormalizedMatchStrategy", "GlobalSearchStrategy",
      "FuzzySearchStrategy">>

\* C1: the strategies are invoked in the order Exact, Normalized,
\* GlobalSearch, Fuzzy, each with the caller's music_section, artist and
\* limit; a strategy is invoked only after every strategy before it has
\* returned a result with success false, so none is invoked after a success.
C1_FallbackOrder ==
    /\ Len(invoked) <= Len(PriorityOrder)
    /\ \A i \in 1..Len(invoked) :
        /\ invoked[i].strategy = PriorityOrder[i]
        /\ invoked[i].music_section = music_section
        /\ invoked[i].artist = artist
        /\ invoked[i].limit = limit
        /\ \A j \in 1..(i - 1) :
            /\ HasReturned(j)
            /\ invoked[j].result.success = FALSE

C1_Witness ==
    /\ pc = "returned"
    /\ Len(invoked) = 4
    /\ result.success

\* the first invocation that returned success true; 0 when there is none
RECURSIVE FirstSuccessFrom(_)
FirstSuccessFrom(i) ==
    IF i > Len(invoked) THEN 0
    ELSE IF HasReturned(i) /\ invoked[i].result.success THEN i
    ELSE FirstSuccessFrom(i + 1)

\* C2: when a strategy succeeds, search_tracks_by_artist returns exactly the
\* result (success, tracks, matched_artists) of the first strategy in order
\* that returned success true.
C2_FirstSuccessReturned ==
    FirstSuccessFrom(1) # 0 =>
        /\ pc = "returned"
        /\ result = invoked[FirstSuccessFrom(1)].result
        /\ result.success = TRUE

C2_Witness ==
    /\ pc = "returned"
    /\ Len(invoked) = 2
    /\ result.success
    /\ result.matched_artists # <<artist>>

\* C3: when all four strategies have returned failure, search_tracks_by_artist
\* returns {success: false, tracks: [], matched_artists: []} and raises nothing.
C3_Exhausted ==
    (/\ Len(invoked) = 4
     /\ \A i \in 1..4 : HasReturned(i) /\ ~invoked[i].result.success)
    => /\ pc = "returned"
       /\ result = [success |-> FALSE, tracks |-> <<>>, matched_artists |-> <<>>]
       /\ error = ""

C3_Witness ==
    /\ pc = "returned"
    /\ Len(invoked) = 4
    /\ Len(calls) = 5
    /\ ~result.success

\* the result invariant of one result
WellFormed(r) ==
    /\ r.success = (r.tracks # <<>> /\ r.matched_artists # <<>>)
    /\ ~r.success => (r.tracks = <<>> /\ r.matched_artists = <<>>)

\* C4: every result a strategy returns, and every result the context returns,
\* has success true exactly when tracks and matched_artists are both
\* non-empty, and has both empty when success is false.
C4_ResultInvariant ==
    /\ \A i \in 1..Len(invoked) : HasReturned(i) => WellFormed(invoked[i].result)
    /\ pc = "returned" => WellFormed(result)

C4_Witness ==
    /\ pc = "returned"
    /\ LastInvoked.strategy = "FuzzySearchStrategy"
    /\ Len(response.items) = 2
    /\ Len(result.tracks) = 1
    /\ result.success

\* after a catalog call of the latest strategy raised BadRequest or NotFound
\* and the strategy went on: it has returned the failure result, and the loop
\* is at the next strategy or, past the last, has returned the failure result
C5_Step ==
    (/\ invoked # <<>>
     /\ pc # "answered"
     /\ response.kind \in {"BadRequest", "NotFound"})
    => /\ HasReturned(Len(invoked))
       /\ LastInvoked.strategy = pending.strategy
       /\ LastInvoked.result =
              [success |-> FALSE, tracks |-> <<>>, matched_artists |-> <<>>]
       /\ error = ""
       /\ IF Len(invoked) < 4
          THEN /\ pc = "invoke"
               /\ idx = Len(invoked) + 1
               /\ strategies[idx].class = PriorityOrder[Len(invoked) + 1]
          ELSE /\ pc = "returned"
               /\ result =
                      [success |-> FALSE, tracks |-> <<>>, matched_artists |-> <<>>]

\* the search raises only for an exception of another kind, and succeeds
\* only on an answer of the catalog
C5_OnlyOtherRaises ==
    /\ pc = "raised" => response.kind \notin {"ok", "BadRequest", "NotFound"}
    /\ (pc = "returned" /\ result.success) => response.kind = "ok"

\* C5: a BadRequest or NotFound raised by a strategy's catalog call makes
\* that strategy return the failure result instead of raising, and the
\* context goes on with the next strategy in order; when every catalog call
\* raises such an error the context returns the failure result, without
\* raising.
C5_ErrorIsolation == C5_Step /\ C5_OnlyOtherRaises

C5_Witness ==
    /\ pc = "invoke"
    /\ Len(invoked) = 1
    /\ response.kind = "BadRequest"
    /\ strategies[idx].class = "NormalizedMatchStrategy"

\* C6: an exception of a catalog call that is neither BadRequest nor NotFound
\* is not turned into a failure result: it leaves the strategy and
\* search_tracks_by_artist, and no strategy is invoked after it.
C6_OtherErrorsPropagate ==
    /\ (pc # "answered" /\ response.kind = "Other")
        => /\ pc = "raised"
           /\ error = "Other"
           /\ result = NoResult
           /\ LastInvoked.done
           /\ LastInvoked.raised = "Other"
           /\ LastInvoked.strategy = pending.strategy
    /\ \A i \in 1..Len(invoked) :
           (invoked[i].done /\ invoked[i].raised # "")
               => (i = Len(invoked) /\ pc = "raised")

C6_Witness ==
    /\ pc = "raised"
    /\ Len(invoked) = 3
    /\ Len(calls) = 4
    /\ error = "Other"

\* C7: when normalize_artist_name(artist) = artist, NormalizedMatchStrategy
\* makes no catalog call and returns the failure result.
C7_NormalizedShortCircuit ==
    normalize_artist_name(artist) = artist =>
        /\ CallsOf("NormalizedMatchStrategy") = <<>>
        /\ Len(invoked) >= 2 =>
              /\ HasReturned(2)
              /\ invoked[2].result =
                     [success |-> FALSE, tracks |-> <<>>, matched_artists |-> <<>>]

C7_Witness ==
    /\ Len(invoked) = 2
    /\ invoked[2].done
    /\ artist # <<>>
    /\ normalize_artist_name(artist) = artist
    /\ calls = <<ExactQuery(music_section, artist, limit)>>

\* C8: when normalize_artist_name(artist) # artist, NormalizedMatchStrategy
\* makes exactly one query, an artist filter whose value is the normalized
\* string, and returns success exactly when the query returned a track, with
\* matched_artists = [normalized artist].
C8_NormalizedQuery ==
    normalize_artist_name(artist) # artist =>
        /\ Len(invoked) >= 2 =>
               CallsOf("NormalizedMatchStrategy") =
                   <<[strategy |-> "NormalizedMatchStrategy",
                      target |-> music_section, method |-> "searchTracks",
                      param |-> "filters[artist.title]",
                      value |-> normalize_artist_name(artist), limit |-> limit]>>
        /\ ReturnedAfterAnswer("NormalizedMatchStrategy") =>
               /\ LastInvoked.result.success
                      = (response.kind = "ok" /\ Len(response.items) >= 1)
               /\ LastInvoked.result.success =>
                      LastInvoked.result.matched_artists
                          = <<normalize_artist_name(artist)>>

C8_Witness ==
    /\ ReturnedAfterAnswer("NormalizedMatchStrategy")
    /\ LastInvoked.result.success
    /\ result.matched_artists = <<<<"Q", "-">>>>
    /\ artist = <<"Q", "U+2013">>

\* C9: ExactMatchStrategy makes exactly one query, an artist filter with the
\* artist string verbatim, and returns success exactly when the query
\* returned a track; on success matched_artists is [artist], the query
\* string, whatever name the catalog gives the artist.
C9_ExactQuery ==
    /\ Len(invoked) >= 1 =>
           CallsOf("ExactMatchStrategy") =
               <<[strategy |-> "ExactMatchStrategy", target |-> music_section,
                  method |-> "searchTracks", param |-> "filters[artist.title]",
                  value |-> artist, limit |-> limit]>>
    /\ ReturnedAfterAnswer("ExactMatchStrategy") =>
           /\ LastInvoked.result.success
                  = (response.kind = "ok" /\ Len(response.items) >= 1)
           /\ LastInvoked.result.success =>
                  /\ LastInvoked.result.matched_artists = <<artist>>
                  /\ pc = "returned"
                  /\ result.matched_artists = <<artist>>

C9_Witness ==
    /\ pc = "returned"
    /\ Len(invoked) = 1
    /\ artist = <<"q">>
    /\ response.items # <<>>
    /\ response.items[1].grandparentTitle = <<"Q">>
    /\ result.matched_artists = <<<<"q">>>>

\* the entries of the server's search that are artists with a non-empty
\* title equal to the artist, or equal after normalization, letter case aside
C10_Kept(items) ==
    SelectSeq(items, LAMBDA e :
        /\ e.type = "artist"
        /\ e.title # <<>>
        /\ \/ Lower(e.title) = Lower(artist)
           \/ Lower(normalize_artist_name(e.title))
                  = Lower(normalize_artist_name(artist)))

\* GlobalSearchStrategy goes on from the answer of the server's search
C10_AfterSearch ==
    (/\ pc = "answered"
     /\ strategies[idx].class = "GlobalSearchStrategy"
     /\ pending.method = "search"
     /\ response.kind = "ok"
     /\ vars' # vars)
    => IF C10_Kept(response.items) = <<>>
       THEN calls' = calls
       ELSE /\ pc' = "await"
            /\ pending' =
                   [strategy |-> "GlobalSearchStrategy", target |-> music_section,
                    method |-> "searchTracks", param |-> "filters[artist.title]",
                    value |-> C10_Kept(response.items)[1].title, limit |-> limit]
            /\ calls' = Append(calls, pending')
            /\ artist_name' = C10_Kept(response.items)[1].title

\* GlobalSearchStrategy has returned after its track query
C10_AfterTracks ==
    (/\ ReturnedAfterAnswer("GlobalSearchStrategy")
     /\ pending.method = "searchTracks")
    => /\ pending.value = artist_name
       /\ (response.kind = "ok" /\ Len(response.items) >= 1)
              => LastInvoked.result.success
       /\ LastInvoked.result.success =>
              /\ LastInvoked.result.matched_artists = <<artist_name>>
              /\ LastInvoked.result.tracks = response.items

\* C10: GlobalSearchStrategy keeps the entries of the server's search that
\* have type "artist", a non-empty title, and a title equal to the artist
\* case-insensitively or equal to it after normalization, case-insensitively;
\* it queries the tracks of the first kept entry's title and, when a track
\* comes back, succeeds with matched_artists = [that title] as the catalog
\* spells it.
C10_GlobalFilter == [][C10_AfterSearch /\ C10_AfterTracks']_vars

C10_Witness ==
    /\ pc = "returned"
    /\ LastInvoked.strategy = "GlobalSearchStrategy"
    /\ result.success
    /\ artist = <<"q", "-">>
    /\ result.matched_artists = <<<<"Q", "U+2013">>>>


\* C11: when no entry of the server's search passes the artist filter (no
\* entry, only entries of another type, or artists with other titles),
\* GlobalSearchStrategy returns the failure result and makes no track query.
C11_NoCandidate ==
    [][(/\ pc = "answered"
        /\ strategies[idx].class = "GlobalSearchStrategy"
        /\ pending.method = "search"
        /\ response.kind = "ok"
        /\ C10_Kept(response.items) = <<>>
        /\ vars' # vars)
       => /\ calls' = calls
          /\ pending' = pending
          /\ invoked'[Len(invoked')].strategy = "GlobalSearchStrategy"
          /\ invoked'[Len(invoked')].done
          /\ invoked'[Len(invoked')].raised = ""
          /\ invoked'[Len(invoked')].result =
                 [success |-> FALSE, tracks |-> <<>>, matched_artists |-> <<>>]
          /\ pc' = "invoke"]_vars

C11_Witness ==
    /\ ReturnedAfterAnswer("GlobalSearchStrategy")
    /\ pending.method = "search"
    /\ response.kind = "ok"
    /\ artist = <<"Q">>
    /\ Len(response.items) = 2
    /\ response.items[1] = [type |-> "album", title |-> <<"Q">>]
    /\ response.items[2] = [type |-> "artist", title |-> <<"Q", "-">>]
    /\ CallsOf("GlobalSearchStrategy") = <<pending>>


\* the tracks of an answer whose artist attribution is non-empty and equal
\* to the artist, or equal after normalization, letter case aside
C12_Retained(tracks) ==
    SelectSeq(tracks, LAMBDA t :
        /\ t.grandparentTitle # <<>>
        /\ \/ Lower(t.grandparentTitle) = Lower(artist)
           \/ Lower(normalize_artist_name(t.grandparentTitle))
                  = Lower(normalize_artist_name(artist)))

\* C12: FuzzySearchStrategy makes one query, a title probe with the artist as
\* the title, and returns exactly the returned tracks whose artist
\* attribution is non-empty and matches the artist case-insensitively,
\* directly or after normalization, in the catalog's order; it fails exactly
\* when no track is retained.
C12_FuzzyFilter ==
    /\ Len(invoked) = 4 =>
           CallsOf("FuzzySearchStrategy") =
               <<[strategy |-> "FuzzySearchStrategy", target |-> music_section,
                  method |-> "searchTracks", param |-> "title",
                  value |-> artist, limit |-> limit]>>
    /\ ReturnedAfterAnswer("FuzzySearchStrategy") =>
           /\ LastInvoked.result.success = (C12_Retained(response.items) # <<>>)
           /\ LastInvoked.result.tracks = C12_Retained(response.items)

C12_Witness ==
    /\ pc = "returned"
    /\ LastInvoked.strategy = "FuzzySearchStrategy"
    /\ artist = <<"Q", "U+2013">>
    /\ response.items =
           <<[id |-> 1, grandparentTitle |-> <<"Q">>],
             [id |-> 2, grandparentTitle |-> <<"Q", "-">>]>>
    /\ result.tracks = <<[id |-> 2, grandparentTitle |-> <<"Q", "-">>]>>


\* the values of a sequence once each, in the order of their first occurrence
RECURSIVE C13_Distinct(_, _)
C13_Distinct(s, seen) ==
    IF s = <<>> THEN <<>>
    ELSE IF Head(s) \in seen THEN C13_Distinct(Tail(s), seen)
         ELSE <<Head(s)>> \o C13_Distinct(Tail(s), seen \cup {Head(s)})

\* the artist attributions of the retained tracks, in the tracks' order
C13_Attributions ==
    [i \in 1..Len(C12_Retained(response.items)) |->
        C12_Retained(response.items)[i].grandparentTitle]

\* C13: on success, FuzzySearchStrategy's matched_artists is the list of the
\* distinct artist attributions of the retained tracks, without duplicates
\* and in the order of their first occurrence among the retained tracks.
C13_FirstOccurrenceOrder ==
    (/\ ReturnedAfterAnswer("FuzzySearchStrategy")
     /\ LastInvoked.result.success)
    => LastInvoked.result.matched_artists = C13_Distinct(C13_Attributions, {})


\* normalize_artist_name has returned for arg_name
NormalizerReturned ==
    norm_pc \in {"returned", "compared", "renormalized", "matched"}

\* C14: normalize_artist_name is idempotent: normalizing its result gives the
\* result again, for every string, strings that mix compatibility
\* characters, dash variants, Unicode spaces and outer whitespace included.
C14_Idempotent == norm_pc = "renormalized" => renormalized = normalized

C14_Witness ==
    /\ norm_pc = "renormalized"
    /\ arg_name = <<"U+00E9", "U+2013", "U+2003">>
    /\ normalized = <<"e", "U+0301", "-">>
    /\ renormalized = <<"e", "U+0301", "-">>

C15_SixDashes == {"U+2010", "U+2013", "U+2014", "U+2212", "U+2012", "U+2015"}

\* C15: normalize_artist_name maps every occurrence of the six dash code
\* points U+2010, U+2013, U+2014, U+2212, U+2012, U+2015 to the ASCII hyphen:
\* a name of letters, hyphens and these dashes comes out with each dash
\* replaced in place (a letter, one of the six, a letter gives letter, "-",
\* letter), and no output contains any of the six.
C15_DashCanonicalization ==
    NormalizerReturned =>
        /\ \A i \in 1..Len(normalized) : normalized[i] \notin C15_SixDashes
        /\ (\A i \in 1..Len(arg_name) :
                arg_name[i] \in C15_SixDashes \cup {"Q", "-"})
           => normalized =
                  [i \in 1..Len(arg_name) |->
                      IF arg_name[i] \in C15_SixDashes THEN "-" ELSE arg_name[i]]
        /\ \A d \in C15_SixDashes :
               arg_name = <<"Q", d, "Q">> => normalized = <<"Q", "-", "Q">>

C15_Witness ==
    /\ norm_pc = "returned"
    /\ arg_name = <<"Q", "U+2015", "Q">>
    /\ normalized = <<"Q", "-", "Q">>


\* the whitespace characters of the names
C16_Whitespace ==
    {" ", "\t", "\n", "U+00A0", "U+2000", "U+2001", "U+2002", "U+2003",
     "U+2004", "U+2005", "U+2006", "U+2007", "U+2008", "U+2009", "U+200A"}

\* s with each run of whitespace between two other characters as one ASCII
\* space, and without the runs at its ends
C16_Canonicalized(s) ==
    LET ws(i) == s[i] \in C16_Whitespace
        inner(i) == /\ \E j \in 1..(i - 1) : ~ws(j)
                    /\ \E j \in (i + 1)..Len(s) : ~ws(j)
        first(i) == i = 1 \/ ~ws(i - 1)
        marks == [i \in 1..Len(s) |->
                     IF ~ws(i) THEN s[i]
                     ELSE IF inner(i) /\ first(i) THEN " " ELSE "dropped"]
    IN SelectSeq(marks, LAMBDA c : c # "dropped")

\* C16: in every output of normalize_artist_name each run of whitespace of
\* the input (U+00A0 and U+2000..U+200A included) is a single ASCII space and
\* the whitespace at the ends is gone: the output holds no other whitespace
\* character, does not start or end with a space, has no two adjacent
\* spaces, and is empty for an empty or all-whitespace input.
C16_SpaceCanonicalization ==
    NormalizerReturned =>
        /\ \A i \in 1..Len(normalized) :
               normalized[i] \notin C16_Whitespace \ {" "}
        /\ normalized # <<>> =>
               normalized[1] # " " /\ normalized[Len(normalized)] # " "
        /\ \A i \in 1..(Len(normalized) - 1) :
               ~(normalized[i] = " " /\ normalized[i + 1] = " ")
        /\ (\A i \in 1..Len(arg_name) : arg_name[i] \in C16_Whitespace)
           => normalized = <<>>
        /\ (\A i \in 1..Len(arg_name) :
                arg_name[i] \in C16_Whitespace \cup {"Q", "-"})
           => normalized = C16_Canonicalized(arg_name)

C16_Witness ==
    /\ norm_pc = "returned"
    /\ arg_name = <<"Q", "U+2003", "Q">>
    /\ normalized = <<"Q", " ", "Q">>

\* a name in canonical form: plain letters, ASCII hyphens and single
\* interior ASCII spaces only
C17_Canonical(s) ==
    /\ \A i \in 1..Len(s) : s[i] \in {"Q", "q", "e", "-", " "}
    /\ s # <<>> => s[1] # " " /\ s[Len(s)] # " "
    /\ \A i \in 1..(Len(s) - 1) : ~(s[i] = " " /\ s[i + 1] = " ")

\* C17: normalize_artist_name returns a name in canonical form unchanged,
\* and the test NormalizedMatchStrategy makes before it queries finds no
\* difference for such a name, so that it never queries for it.
C17_NoOpNormalization ==
    /\ (NormalizerReturned /\ C17_Canonical(arg_name)) => normalized = arg_name
    /\ (norm_pc = "compared" /\ C17_Canonical(arg_name)) => ~differs

C17_Witness ==
    /\ norm_pc = "compared"
    /\ arg_name = <<"Q", " ", "Q">>
    /\ normalized = <<"Q", " ", "Q">>
    /\ ~differs


\* C19: in every state, after construction and after any searches (ended
\* with a success, a failure or a propagated error), the strategies list is
\* the four strategies Exact, Normalized, GlobalSearch, Fuzzy in this order,
\* GlobalSearch holding the server of the context; no step of a search
\* changes the list or the server.
C19_StrategiesFixed ==
    /\ [](strategies =
              <<[class |-> "ExactMatchStrategy", server |-> ""],
                [class |-> "NormalizedMatchStrategy", server |-> ""],
                [class |-> "GlobalSearchStrategy", server |-> server],
                [class |-> "FuzzySearchStrategy", server |-> ""]>>)
    /\ [][strategies' = strategies /\ server' = server]_vars

C19_Witness ==
    /\ pc = "raised"
    /\ error # ""
    /\ Len(invoked) = 3
    /\ pending.target = strategies[3].server
    /\ strategies[3] = [class |-> "GlobalSearchStrategy", server |-> server]

\* C20: every track query of a strategy (the exact filter, the normalized
\* filter, the follow-up filter of the global search, the fuzzy title probe)
\* carries the caller's limit, and the server's search always carries 50.
C20_Limits ==
    \A i \in 1..Len(calls) :
        /\ calls[i].method = "searchTracks" => calls[i].limit = limit
        /\ calls[i].method = "search" => calls[i].limit = 50
        /\ calls[i].method \in {"searchTracks", "search"}

C20_Witness ==
    /\ Len(calls) = 5
    /\ limit = 2
    /\ [i \in 1..5 |-> calls[i].limit] = <<2, 2, 50, 2, 2>>
    /\ [i \in 1..5 |-> calls[i].param] =
           <<"filters[artist.title]", "filters[artist.title]", "query",
             "filters[artist.title]", "title">>


\* the frames a search that runs alone from the frame f ends in, when the
\* catalog gives it the answers in their order
RECURSIVE C18_Alone(_, _)
C18_Alone(f, answers) ==
    CASE f.pc \in {"returned", "raised"} ->
             IF answers = <<>> THEN {f} ELSE {}
      [] f.pc = "invoke" -> C18_Alone(Invoked(f), answers)
      [] f.pc = "await" ->
             IF answers = <<>> THEN {}
             ELSE C18_Alone(Answered(f, Head(answers)), Tail(answers))
      [] f.pc = "answered" ->
             UNION {C18_Alone(g, answers) : g \in Resumed(f, f.artist_name)}

\* the caller c's search has ended as it would have ended alone
C18_AsAlone(c) ==
    frames[c].pc \in {"returned", "raised"} =>
        frames[c] \in
            C18_Alone(Entered(frames[c].music_section, frames[c].artist,
                              frames[c].limit),
                      frames[c].answers)

\* C18: searches that run on one context at the same time do not interfere:
\* under every interleaving of their steps each step writes the frame of one
\* caller only and leaves the context as it is, and every search ends with
\* the result (or the exception) it would end with alone on the same answers
\* of the catalog.
C18_NoInterference ==
    /\ [](\A c \in Callers : C18_AsAlone(c))
    /\ [][/\ \E c \in Callers :
                \A d \in Callers \ {c} : frames'[d] = frames[d]
          /\ server' = server
          /\ strategies' = strategies]_vars

C18_Witness ==
    /\ frames[1].pc = "returned"
    /\ frames[1].idx = 3
    /\ frames[1].result.matched_artists = << <<"Q">> >>
    /\ frames[2].pc = "await"
    /\ frames[2].idx = 3
    /\ frames[2].artist_name = <<"q">>


C22_EndedAfterSuppressed(method) ==
    /\ invoked # <<>>
    /\ LastInvoked.strategy = "GlobalSearchStrategy"
    /\ LastInvoked.done
    /\ pending.strategy = "GlobalSearchStrategy"
    /\ pending.method = method
    /\ response.kind \in {"BadRequest", "NotFound"}

\* C22: both catalog calls of GlobalSearchStrategy are under the same error
\* suppression: a malformed-query or not-found error of the follow-up track
\* query gives the failure result, as such an error of the server's search
\* does, and is not propagated.
C22_BothCallsSuppressed ==
    \A method \in {"search", "searchTracks"} :
        C22_EndedAfterSuppressed(method) =>
            /\ LastInvoked.raised = ""
            /\ LastInvoked.result =
                   [success |-> FALSE, tracks |-> <<>>, matched_artists |-> <<>>]
            /\ pc = "invoke"
            /\ idx = 4
            /\ error = ""

C22_Witness ==
    /\ C22_EndedAfterSuppressed("searchTracks")
    /\ response.kind = "NotFound"
    /\ artist_name = <<"Q", "-">>
    /\ Len(calls) = 4
    /\ pc = "invoke"


\* the server's search has answered GlobalSearchStrategy with several
\* entries that pass the artist filter
C23_SeveralKept ==
    /\ pc = "answered"
    /\ strategies[idx].class = "GlobalSearchStrategy"
    /\ pending.method = "search"
    /\ response.kind = "ok"
    /\ Len(C10_Kept(response.items)) >= 2

\* GlobalSearchStrategy queries tracks once at most, and ends with the
\* failure result when that query returned no track
C23_OneTrackQuery ==
    /\ Len(CallsOf("GlobalSearchStrategy")) <= 2
    /\ Len(SelectSeq(calls, LAMBDA q :
               q.strategy = "GlobalSearchStrategy" /\ q.method = "searchTracks"))
           <= 1
    /\ (/\ ReturnedAfterAnswer("GlobalSearchStrategy")
        /\ pending.method = "searchTracks"
        /\ response = [kind |-> "ok", items |-> <<>>])
       => /\ LastInvoked.result =
                 [success |-> FALSE, tracks |-> <<>>, matched_artists |-> <<>>]
          /\ pc = "invoke"
          /\ idx = 4

\* C23: when several entries of the server's search pass the artist filter,
\* GlobalSearchStrategy queries the tracks of the first of them in the
\* search's order and of no other: when that query returns no track it
\* returns the failure result without a query for a later entry.
C23_TieBreak ==
    [][/\ (C23_SeveralKept /\ vars' # vars) =>
              /\ pending'.method = "searchTracks"
              /\ pending'.value = C10_Kept(response.items)[1].title
              /\ calls' = Append(calls, pending')
       /\ C23_OneTrackQuery']_vars

C23_Witness ==
    /\ C23_SeveralKept
    /\ artist = <<"Q">>
    /\ response.items =
           <<[type |-> "artist", title |-> <<"q">>],
             [type |-> "artist", title |-> <<"Q">>]>>


\* the number of catalog calls the strategy class has made in this search
C24_Calls(class) == Len(SelectSeq(calls, LAMBDA q : q.strategy = class))

\* each strategy is invoked once at most, and the catalog is called five
\* times at most: once at most by Exact, Normalized and Fuzzy, twice at most
\* by GlobalSearch
C24_Bounded ==
    /\ \A i, j \in 1..Len(invoked) :
           invoked[i].strategy = invoked[j].strategy => i = j
    /\ Len(invoked) <= 4
    /\ Len(calls) <= 5
    /\ C24_Calls("ExactMatchStrategy") <= 1
    /\ C24_Calls("NormalizedMatchStrategy") <= 1
    /\ C24_Calls("FuzzySearchStrategy") <= 1
    /\ C24_Calls("GlobalSearchStrategy") <= 2
    /\ \A i, j \in 1..Len(calls) : calls[i] = calls[j] => i = j

\* C24: every search, when each catalog call returns, ends with a result or
\* a raised error, having invoked each strategy once at most and called the
\* catalog five times at most (once at most for Exact, Normalized and Fuzzy,
\* twice at most for GlobalSearch), no call being made again.
C24_Terminates ==
    /\ []C24_Bounded
    /\ (pc \in {"invoke", "await", "answered"}) ~> (pc \in {"returned", "raised"})

C24_Witness ==
    /\ pc = "returned"
    /\ Len(invoked) = 4
    /\ Len(calls) = 5
    /\ ~result.success


\* the caller c's search has ended
C25_Ended(c) == frames[c].pc \in {"returned", "raised"}

\* the attributions of the tracks the fuzzy strategy retains for the artist
\* name, each once, in the order of their first occurrence
C25_Added(tracks, name) ==
    LET retained ==
            SelectSeq(tracks, LAMBDA t :
                /\ t.grandparentTitle # <<>>
                /\ \/ Lower(t.grandparentTitle) = Lower(name)
                   \/ Lower(normalize_artist_name(t.grandparentTitle))
                          = Lower(normalize_artist_name(name)))
    IN C13_Distinct(
           [i \in 1..Len(retained) |-> retained[i].grandparentTitle], {})

\* the frames a search from the frame f ends in on the answers, when no
\* other search has run in the interpreter
RECURSIVE C25_Alone(_, _)
C25_Alone(f, answers) ==
    CASE f.pc \in {"returned", "raised"} ->
             IF answers = <<>> THEN {f} ELSE {}
      [] f.pc = "invoke" -> C25_Alone(Invoked(f), answers)
      [] f.pc = "await" ->
             IF answers = <<>> THEN {}
             ELSE C25_Alone(Answered(f, Head(answers)), Tail(answers))
      [] f.pc = "answered" ->
             UNION {C25_Alone(g, answers) :
                 g \in {h \in Resumed(f, f.artist_name) :
                           (f.idx = 4 /\ h.pc = "returned" /\ h.result.success)
                           => h.result.matched_artists =
                                  hash_seed[C25_Added(f.response.items, f.artist)]}}

RECURSIVE C26_Decomposed(_)
C26_Decomposed(s) ==
    IF s = <<>> THEN <<>>
    ELSE (IF Head(s) = "U+00E9" THEN <<"e", "U+0301">> ELSE <<Head(s)>>)
         \o C26_Decomposed(Tail(s))

\* s in its unaccented spelling
C26_Plain(s) == [i \in 1..Len(s) |-> IF s[i] = "U+00E9" THEN "e" ELSE s[i]]

=============================================================================
